---- MODULE Spec2Model ----
(***************************************************************************)
(* Model of the Homely API client (custom_components/homely/homely.py):    *)
(* the token life cycle (get_token, _refresh_access_token), the throttled  *)
(* location-data cache (_get_location_data) and the facade operations.     *)
(*                                                                         *)
(* Time is an integer number of seconds.  Every operation is one action:   *)
(* the server's answers (status, body, latency, transport failure) are the *)
(* action's inputs, and the clock `now` advances by the latency of every   *)
(* request the operation issues.  `last` records what the operation that   *)
(* has just ended did (the object before, the requests issued, the         *)
(* outcome) until the caller takes the result; callers serialize their     *)
(* calls (the coordinator awaits get_data()).  Under SpecPairs `prev`      *)
(* keeps what the operation before did.  Under SpecAsync the calls are     *)
(* coroutines that overlap: `tasks` holds where each one stands, and one   *)
(* action runs one of them from one suspension point to the next.          *)
(***************************************************************************)
EXTENDS Integers, Sequences, FiniteSets, TLC

VARIABLES
    now,             \* datetime.now(), in seconds
    tok,             \* _access_token, _access_token_expire, _refresh_token, _refresh_token_expire
    location_id,     \* _location_id
    location_data,   \* _location_data
    data_refreshed,  \* _data_refreshed
    locations,       \* _locations
    last,            \* record of the operation that has just ended
    prev,            \* what is kept of the operation before it (SpecPairs)
    tasks            \* the get_data() coroutines in flight (SpecAsync)

vars == <<now, tok, location_id, location_data, data_refreshed, locations, last, prev,
          tasks>>

---------------------------------------------------------------------------
(* Program constants *)

REQ_TIMEOUT == 10

REFRESH_LIMIT == 10

TOKEN_EXPIRE_MARGIN == 20

\* timedelta(hours=1) of __init__, in seconds
INIT_EXPIRED_BY == 3600

---------------------------------------------------------------------------
(* Bounds *)

\* the clock stops at MaxTime
MaxTime == 20

\* the clock of the overlapping coroutines stops at MaxAsyncTime
MaxAsyncTime == 10

\* the latencies of an answered request, in seconds (at most REQ_TIMEOUT)
Delays == {0, 5}

\* the lengths of a clock advance between operations
TickSteps == {5}

\* Python's None, for the string-valued fields
None == "None"

\* the location_id arguments of the location-scoped operations
LocArgs == {None, "loc1"}

\* the location ids given to __init__ and set_location_id
DefaultLocs == {None, "loc2"}

---------------------------------------------------------------------------
(* Exceptions: the class hierarchy of homely.py lines 12-41 *)

HomelyErrors ==
    {"HomelyError", "ResponseError", "TokenExpiredError", "InvalidArgument",
     "RequestFailed", "LoginError", "NoAuth"}

\* isinstance(exc, cls) for the exception classes of the module
IsInstance(exc, cls) ==
    \/ exc = cls
    \/ cls = "HomelyError" /\ exc \in HomelyErrors
    \/ cls = "ValueError" /\ exc = "JSONDecodeError"
    \/ cls = "Exception" /\ exc # None

---------------------------------------------------------------------------
(* Server answers *)

TokenKeys == {"access_token", "expires_in", "refresh_token", "refresh_expires_in"}

TokenBody(keys, parses, n, e, re) ==
    [parses |-> parses, keys |-> keys,
     access_token |-> IF n = 1 THEN "a1" ELSE "a2", expires_in |-> e,
     refresh_token |-> IF n = 1 THEN "r1" ELSE "r2", refresh_expires_in |-> re]

NoTokenBody == TokenBody({}, FALSE, 1, 0, 0)

\* well-formed login / refresh bodies: lifetimes below, at and above the margin
GoodTokenBodies ==
    {TokenBody(TokenKeys, TRUE, 1, 25, 40), TokenBody(TokenKeys, TRUE, 2, 30, 30),
     TokenBody(TokenKeys, TRUE, 2, 15, 25)}

\* bodies that are no JSON, or JSON without one of the fields
BadTokenBodies ==
    {NoTokenBody, TokenBody(TokenKeys \ {"expires_in"}, TRUE, 2, 0, 40)}

Statuses == {200, 201, 202, 400, 401, 500}

\* what the session's get/post does: answers with a status, raises
\* aiohttp.ClientError, or runs into asyncio.timeout(REQ_TIMEOUT)
Answer(status, tbody, dbody, delay) ==
    [net |-> "ok", status |-> status, tbody |-> tbody, dbody |-> dbody, delay |-> delay]

\* the body of a /locations answer: the ids of the user's locations
LocationLists == {<<"loc1", "loc2">>}

NoBlob == [isNone |-> TRUE, parses |-> TRUE, locationId |-> None,
           alarmState |-> None, hasDevices |-> FALSE, devices |-> <<>>]

\* a location-data document; alarmState = "ABSENT" stands for a missing key
Blob(loc, alarm, hasDev, devs) ==
    [isNone |-> FALSE, parses |-> TRUE, locationId |-> loc,
     alarmState |-> alarm, hasDevices |-> hasDev, devices |-> devs]

BadBlob == [NoBlob EXCEPT !.parses = FALSE]

BlobsOf(loc) ==
    {Blob(loc, "ARMED_AWAY", TRUE, <<"d1">>), Blob(loc, "ABSENT", FALSE, <<>>)}

Failure(kind, delay) ==
    [net |-> kind, status |-> 0, tbody |-> NoTokenBody, dbody |-> NoBlob, delay |-> delay]

NetFailures ==
    {Failure("ClientError", 0), Failure("TimeoutError", REQ_TIMEOUT)}

\* a request that was not issued
NoResp == Failure("none", 0)

TokenResponses ==
    {Answer(200, b, NoBlob, 0) : b \in GoodTokenBodies \cup BadTokenBodies}
    \cup {Answer(200, TokenBody(TokenKeys, TRUE, 1, 25, 40), NoBlob, d) : d \in Delays}
    \cup {Answer(201, TokenBody(TokenKeys, TRUE, 1, 25, 40), NoBlob, 0)}
    \cup {Answer(s, NoTokenBody, NoBlob, 0) : s \in Statuses \ {200, 201}}
    \cup NetFailures

DataResponses(loc) ==
    {Answer(200, NoTokenBody, b, 0) : b \in BlobsOf(loc) \cup {BadBlob}}
    \cup {Answer(200, NoTokenBody, Blob(loc, "ARMED_AWAY", TRUE, <<"d1">>), d) : d \in Delays}
    \cup {Answer(201, NoTokenBody, Blob(loc, "ARMED_AWAY", TRUE, <<"d1">>), 0)}
    \cup {Answer(s, NoTokenBody, NoBlob, 0) : s \in Statuses \ {200, 201}}
    \cup NetFailures

\* /locations answers carry the list in dbody.devices
LocationsBody(list) == [NoBlob EXCEPT !.isNone = FALSE, !.devices = list]

LocationsResponses ==
    {Answer(200, NoTokenBody, b, d) :
        b \in {LocationsBody(l) : l \in LocationLists}, d \in Delays}
    \cup {Answer(200, NoTokenBody, BadBlob, 0)}
    \cup {Answer(201, NoTokenBody, LocationsBody(<<"loc1", "loc2">>), 0)}
    \cup {Answer(s, NoTokenBody, NoBlob, 0) : s \in Statuses \ {200, 201}}
    \cup NetFailures

---------------------------------------------------------------------------
(* The client object and the outcome of a call *)

Self == [tok |-> tok, location_id |-> location_id, location_data |-> location_data,
         data_refreshed |-> data_refreshed, locations |-> locations]

\* one issued request: what was asked, when, the answer, and TokenState
\* when it was issued and when its answer had been processed
LogEntry(kind, loc, at, resp, before, after) ==
    [kind |-> kind, loc |-> loc, at |-> at, done |-> at + resp.delay, resp |-> resp,
     before |-> before, after |-> after]

\* the element of a one-element set
The(S) == CHOOSE x \in S : TRUE

\* the outcome of a method: the object afterwards, the exception raised (None
\* if it returned), the boolean it returned, the time, the requests issued
Out(self, exc, ret, t, reqs) ==
    [self |-> self, exc |-> exc, ret |-> ret, t |-> t, reqs |-> reqs]

---------------------------------------------------------------------------
(* Homely._request *)

\* the exception _request raises for an answer (None: the response is
\* returned).  Both except clauses run `raise RequestFailed(...) from Homely`;
\* Homely is a class that is no exception, so the raise statement itself
\* fails with TypeError("exception causes must derive from BaseException").
request(req_type, resp) ==
    IF req_type \notin {"GET", "POST"} THEN "InvalidArgument"
    ELSE IF resp.net = "ok" THEN None
    ELSE "TypeError"

---------------------------------------------------------------------------
(* Token validity *)

\* a mutant of _token_expired: the token counts as expired at its expiry instant
token_expired_at_expiry(expire, t) == t >= expire

token_expired(expire, t) == t > expire

\* a mutant of _access_token_valid: the expiry is not looked at
access_token_valid_no_expiry(k, t) == k.access_token # None

access_token_valid(k, t) ==
    ~(k.access_token = None \/ token_expired(k.access_token_expire, t))

---------------------------------------------------------------------------
(* Installing a token pair: the four assignments, in source order; a missing
   key raises KeyError and leaves the earlier assignments in place *)

\* a mutant of expire_time: the safety margin is not subtracted
expire_time_no_margin(t, seconds) == t + seconds

\* datetime.now() + timedelta(seconds=(int(seconds) - self.TOKEN_EXPIRE_MARGIN))
expire_time(t, seconds) == t + (seconds - TOKEN_EXPIRE_MARGIN)

\* _refresh_access_token, lines 130-141, with the answer processed at time t
refresh_set_tokens(k, body, t) ==
    IF ~body.parses THEN [tok |-> k, exc |-> "JSONDecodeError"]
    ELSE IF "access_token" \notin body.keys THEN [tok |-> k, exc |-> "KeyError"]
    ELSE LET k1 == [k EXCEPT !.access_token = body.access_token] IN
    IF "expires_in" \notin body.keys THEN [tok |-> k1, exc |-> "KeyError"]
    ELSE LET k2 == [k1 EXCEPT !.access_token_expire =
                                 expire_time(t, body.expires_in)] IN
    IF "refresh_token" \notin body.keys THEN [tok |-> k2, exc |-> "KeyError"]
    ELSE LET k3 == [k2 EXCEPT !.refresh_token = body.refresh_token] IN
    IF "refresh_expires_in" \notin body.keys THEN [tok |-> k3, exc |-> "KeyError"]
    ELSE [tok |-> [k3 EXCEPT !.refresh_token_expire =
                                 expire_time(t, body.refresh_expires_in)],
          exc |-> None]

\* get_token, lines 231-243: resp_data is bound only for a 200/201 answer
login_set_tokens(k, status, body, t) ==
    IF status \in {200, 201} /\ ~body.parses THEN [tok |-> k, exc |-> "JSONDecodeError"]
    ELSE IF status \notin {200, 201} THEN [tok |-> k, exc |-> "UnboundLocalError"]
    ELSE IF "access_token" \notin body.keys THEN [tok |-> k, exc |-> "KeyError"]
    ELSE LET k1 == [k EXCEPT !.access_token = body.access_token] IN
    IF "expires_in" \notin body.keys THEN [tok |-> k1, exc |-> "KeyError"]
    ELSE LET k2 == [k1 EXCEPT !.access_token_expire =
                                 expire_time(t, body.expires_in)] IN
    IF "refresh_token" \notin body.keys THEN [tok |-> k2, exc |-> "KeyError"]
    ELSE LET k3 == [k2 EXCEPT !.refresh_token = body.refresh_token] IN
    IF "refresh_expires_in" \notin body.keys THEN [tok |-> k3, exc |-> "KeyError"]
    ELSE [tok |-> [k3 EXCEPT !.refresh_token_expire =
                                 expire_time(t, body.refresh_expires_in)],
          exc |-> None]

---------------------------------------------------------------------------
(* Homely._refresh_access_token, called at time t, the refresh endpoint
   answering rr *)

refresh_access_token(self, t, rr) ==
    IF self.tok.refresh_token = None \/ token_expired(self.tok.refresh_token_expire, t)
    THEN Out(self, "TokenExpiredError", FALSE, t, <<>>)
    ELSE
    LET t1 == t + rr.delay
        unchanged == <<LogEntry("refresh", None, t, rr, self.tok, self.tok)>>
        ins == refresh_set_tokens(self.tok, rr.tbody, t1)
    IN  IF request("POST", rr) # None
        THEN Out(self, request("POST", rr), FALSE, t1, unchanged)
        ELSE IF rr.status >= 500 THEN Out(self, "ResponseError", FALSE, t1, unchanged)
        ELSE IF rr.status = 400 THEN Out(self, "LoginError", FALSE, t1, unchanged)
        ELSE IF rr.status >= 401 THEN Out(self, "LoginError", FALSE, t1, unchanged)
        ELSE IF rr.status \in {200, 201}
        THEN Out([self EXCEPT !.tok = ins.tok], ins.exc, ins.exc = None, t1,
                 <<LogEntry("refresh", None, t, rr, self.tok, ins.tok)>>)
        ELSE Out(self, None, FALSE, t1, unchanged)

---------------------------------------------------------------------------
(* Homely.get_token, called at time t; rr answers the refresh request and lr
   the login request, if the call issues them *)

\* a mutant of login: a 5xx answer is followed by one more login request
login_retries_once(self, t, lr) ==
    LET t1 == t + lr.delay
        unchanged == <<LogEntry("login", None, t, lr, self.tok, self.tok)>>
        ins == login_set_tokens(self.tok, lr.status, lr.tbody, t1)
    IN  IF request("POST", lr) # None
        THEN Out(self, request("POST", lr), FALSE, t1, unchanged)
        ELSE IF lr.status >= 500
        THEN Out(self, "ResponseError", FALSE, t1,
                 unchanged \o <<LogEntry("login", None, t1, [lr EXCEPT !.delay = 0],
                                         self.tok, self.tok)>>)
        ELSE IF lr.status >= 400 THEN Out(self, "LoginError", FALSE, t1, unchanged)
        ELSE Out([self EXCEPT !.tok = ins.tok], ins.exc, ins.exc = None, t1,
                 <<LogEntry("login", None, t, lr, self.tok, ins.tok)>>)

\* a mutant of login: the two status checks are swapped, so that a 5xx
\* answer is reported as invalid credentials
login_checks_swapped(self, t, lr) ==
    LET t1 == t + lr.delay
        unchanged == <<LogEntry("login", None, t, lr, self.tok, self.tok)>>
        ins == login_set_tokens(self.tok, lr.status, lr.tbody, t1)
    IN  IF request("POST", lr) # None
        THEN Out(self, request("POST", lr), FALSE, t1, unchanged)
        ELSE IF lr.status >= 400 THEN Out(self, "LoginError", FALSE, t1, unchanged)
        ELSE IF lr.status >= 500 THEN Out(self, "ResponseError", FALSE, t1, unchanged)
        ELSE Out([self EXCEPT !.tok = ins.tok], ins.exc, ins.exc = None, t1,
                 <<LogEntry("login", None, t, lr, self.tok, ins.tok)>>)

\* lines 221-244: the full login, at time t
login(self, t, lr) ==
    LET t1 == t + lr.delay
        unchanged == <<LogEntry("login", None, t, lr, self.tok, self.tok)>>
        ins == login_set_tokens(self.tok, lr.status, lr.tbody, t1)
    IN  IF request("POST", lr) # None
        THEN Out(self, request("POST", lr), FALSE, t1, unchanged)
        ELSE IF lr.status >= 500 THEN Out(self, "ResponseError", FALSE, t1, unchanged)
        ELSE IF lr.status >= 400 THEN Out(self, "LoginError", FALSE, t1, unchanged)
        ELSE Out([self EXCEPT !.tok = ins.tok], ins.exc, ins.exc = None, t1,
                 <<LogEntry("login", None, t, lr, self.tok, ins.tok)>>)

\* a mutant of after_refresh: the login follows the refresh also when the
\* refresh left a valid access token
after_refresh_always_login(try, r, lr) ==
    IF r.exc # None THEN r
    ELSE The({[l EXCEPT !.reqs = r.reqs \o l.reqs] : l \in {login(r.self, r.t, lr)}})

\* lines 212-244, r being the outcome of the refresh step (of no step, if
\* the refresh token is not usable)
after_refresh(try, r, lr) ==
    IF r.exc # None THEN r
    ELSE IF try /\ access_token_valid(r.self.tok, r.t) THEN [r EXCEPT !.ret = TRUE]
    ELSE The({[l EXCEPT !.reqs = r.reqs \o l.reqs] : l \in {login(r.self, r.t, lr)}})

get_token(self, t, rr, lr) ==
    IF access_token_valid(self.tok, t) THEN Out(self, None, TRUE, t, <<>>)
    ELSE
    LET try == self.tok.refresh_token # None
               /\ ~token_expired(self.tok.refresh_token_expire, t)
    IN  The({after_refresh(try, r, lr) :
                r \in {IF try THEN refresh_access_token(self, t, rr)
                       ELSE Out(self, None, FALSE, t, <<>>)}})

---------------------------------------------------------------------------
(* Homely._get_location_data, called at time t with argument loc; dr answers
   the request for /home/{req_loc_id}, if the call issues it *)

req_loc_id(self, loc) == IF loc # None THEN loc ELSE self.location_id

\* a mutant of still_valid: REFRESH_LIMIT is not added to the refresh time
still_valid_no_limit(refreshed, t) == t < refreshed

\* a mutant of still_valid: the data still counts as fresh REFRESH_LIMIT
\* seconds after the refresh
still_valid_at_limit(refreshed, t) == t <= refreshed + REFRESH_LIMIT

\* a mutant of still_valid: the data counts as fresh for half of REFRESH_LIMIT
still_valid_half_limit(refreshed, t) == t < refreshed + (REFRESH_LIMIT \div 2)

\* lines 176-177: datetime.now() < self._data_refreshed + REFRESH_LIMIT
still_valid(refreshed, t) == t < refreshed + REFRESH_LIMIT

\* a mutant of after_get_token: a 5xx answer restarts the throttle interval
after_get_token_stamps_failure(self, loc, g, dr) ==
    LET t1 == g.t + dr.delay
        reqs == g.reqs \o <<LogEntry("home", req_loc_id(self, loc), g.t, dr,
                                     g.self.tok, g.self.tok)>>
    IN  IF g.exc # None THEN g
        ELSE IF still_valid(g.self.data_refreshed, g.t)
        THEN Out(g.self, None, TRUE, g.t, g.reqs)
        ELSE IF request("GET", dr) # None
        THEN Out(g.self, request("GET", dr), FALSE, t1, reqs)
        ELSE IF dr.status >= 500
        THEN Out([g.self EXCEPT !.data_refreshed = t1], "ResponseError", FALSE, t1, reqs)
        ELSE IF dr.status = 400 THEN Out(g.self, "LoginError", FALSE, t1, reqs)
        ELSE IF dr.status >= 401 THEN Out(g.self, "LoginError", FALSE, t1, reqs)
        ELSE IF dr.status \in {200, 201}
        THEN IF ~dr.dbody.parses
             THEN Out(g.self, "JSONDecodeError", FALSE, t1, reqs)
             ELSE Out([g.self EXCEPT !.location_data = dr.dbody, !.data_refreshed = t1],
                      None, TRUE, t1, reqs)
        ELSE Out(g.self, None, FALSE, t1, reqs)

\* lines 170-201, g being the outcome of get_token()
after_get_token(self, loc, g, dr) ==
    LET t1 == g.t + dr.delay
        reqs == g.reqs \o <<LogEntry("home", req_loc_id(self, loc), g.t, dr,
                                     g.self.tok, g.self.tok)>>
    IN  IF g.exc # None THEN g
        ELSE IF still_valid(g.self.data_refreshed, g.t)
        THEN Out(g.self, None, TRUE, g.t, g.reqs)
        ELSE IF request("GET", dr) # None
        THEN Out(g.self, request("GET", dr), FALSE, t1, reqs)
        ELSE IF dr.status >= 500 THEN Out(g.self, "ResponseError", FALSE, t1, reqs)
        ELSE IF dr.status = 400 THEN Out(g.self, "LoginError", FALSE, t1, reqs)
        ELSE IF dr.status >= 401 THEN Out(g.self, "LoginError", FALSE, t1, reqs)
        ELSE IF dr.status \in {200, 201}
        THEN IF ~dr.dbody.parses
             THEN Out(g.self, "JSONDecodeError", FALSE, t1, reqs)
             ELSE Out([g.self EXCEPT !.location_data = dr.dbody, !.data_refreshed = t1],
                      None, TRUE, t1, reqs)
        ELSE Out(g.self, None, FALSE, t1, reqs)

get_location_data(self, t, loc, rr, lr, dr) ==
    IF self.location_id = None /\ loc = None
    THEN Out(self, "LoginError", FALSE, t, <<>>)
    ELSE The({after_get_token(self, loc, g, dr) : g \in {get_token(self, t, rr, lr)}})

---------------------------------------------------------------------------
(* Homely.get_users_locations, called at time t, /locations answering ur *)

get_users_locations(self, t, ur) ==
    IF ~access_token_valid(self.tok, t) THEN Out(self, "LoginError", FALSE, t, <<>>)
    ELSE
    LET t1 == t + ur.delay
        reqs == <<LogEntry("locations", None, t, ur, self.tok, self.tok)>>
    IN  IF request("GET", ur) # None THEN Out(self, request("GET", ur), FALSE, t1, reqs)
        ELSE IF ur.status >= 500 THEN Out(self, "ResponseError", FALSE, t1, reqs)
        ELSE IF ur.status >= 400 THEN Out(self, "LoginError", FALSE, t1, reqs)
        ELSE IF ur.status \in {200, 201} /\ ~ur.dbody.parses
        THEN Out(self, "JSONDecodeError", FALSE, t1, reqs)
        ELSE IF ur.status \notin {200, 201}
        THEN Out(self, "UnboundLocalError", FALSE, t1, reqs)
        ELSE Out([self EXCEPT !.locations = ur.dbody.devices], None, TRUE, t1, reqs)

---------------------------------------------------------------------------
(* The values the facade operations return after _get_location_data *)

\* a mutant of system_state_of: .get("alarmState") without the default
system_state_of_no_default(data) ==
    IF data.isNone THEN [exc |-> "AttributeError", value |-> None]
    ELSE [exc |-> None,
          value |-> IF data.alarmState = "ABSENT" THEN None ELSE data.alarmState]

\* get_system_state, line 277: self._location_data.get("alarmState", "UNKNOWN")
system_state_of(data) ==
    IF data.isNone THEN [exc |-> "AttributeError", value |-> None]
    ELSE [exc |-> None,
          value |-> IF data.alarmState = "ABSENT" THEN "UNKNOWN" ELSE data.alarmState]

\* get_devices, line 284: self._location_data.get("devices", [])
devices_of(data) ==
    IF data.isNone THEN [exc |-> "AttributeError", value |-> <<>>]
    ELSE [exc |-> None, value |-> IF data.hasDevices THEN data.devices ELSE <<>>]

---------------------------------------------------------------------------
(* HomelyDataUpdateCoordinator._async_update_data (coordinator.py) *)

\* the exception the coordinator's update raises when get_data() raised exc:
\* `except HomelyError as ex: raise UpdateFailed(ex) from ex`; any other
\* exception passes through
async_update_data(exc) ==
    IF exc = None THEN None
    ELSE IF IsInstance(exc, "HomelyError") THEN "UpdateFailed"
    ELSE exc

---------------------------------------------------------------------------
(* The record of an operation *)

Kinds(reqs) == {reqs[i].kind : i \in DOMAIN reqs}

Count(reqs, kind) == Cardinality({i \in DOMAIN reqs : reqs[i].kind = kind})

\* op(loc) was called at time t0 on the object pre and had outcome o (the
\* object afterwards is the state); data, state and devices are the values
\* get_data, get_system_state and get_devices returned
Call(op, loc, t0, pre, o, exc, data, state, devices) ==
    [op |-> op, loc |-> loc, t0 |-> t0, pre |-> pre, exc |-> exc, ret |-> o.ret,
     reqs |-> o.reqs, data |-> data, state |-> state, devices |-> devices]

NoCall ==
    [op |-> None, loc |-> None, t0 |-> 0,
     pre |-> [tok |-> [access_token |-> None, access_token_expire |-> 0,
                       refresh_token |-> None, refresh_token_expire |-> 0],
              location_id |-> None, location_data |-> NoBlob, data_refreshed |-> 0,
              locations |-> <<>>],
     exc |-> None, ret |-> FALSE, reqs |-> <<>>, data |-> NoBlob, state |-> None,
     devices |-> <<>>]

\* the requests of a kind in a sequence of log entries answered 200/201
\* with a body that parses
Fetches(reqs) ==
    {i \in DOMAIN reqs :
        /\ reqs[i].kind = "home"
        /\ reqs[i].resp.net = "ok"
        /\ reqs[i].resp.status \in {200, 201}
        /\ reqs[i].resp.dbody.parses}

\* what is kept of the operation before the last one: for a get_data() that
\* returned, its time, the document returned, the number of location-data
\* requests and the time its successful fetch completed (-1: none)
Brief(c) ==
    IF c.op = "get_data" /\ c.exc = None
    THEN [op |-> c.op, t0 |-> c.t0, data |-> c.data,
          homeRequests |-> Count(c.reqs, "home"),
          fetchDone |-> IF Fetches(c.reqs) = {} THEN 0 - 1
                        ELSE c.reqs[CHOOSE i \in Fetches(c.reqs) : TRUE].done]
    ELSE [op |-> None, t0 |-> 0, data |-> NoBlob, homeRequests |-> 0, fetchDone |-> 0 - 1]

---------------------------------------------------------------------------
(* The answers an operation consumes: one per request it issues *)

RefreshAnswers(self, t) ==
    IF "refresh" \in Kinds(get_token(self, t, NoResp, NoResp).reqs)
    THEN TokenResponses ELSE {NoResp}

LoginAnswers(self, t, rr) ==
    IF "login" \in Kinds(get_token(self, t, rr, NoResp).reqs)
    THEN TokenResponses ELSE {NoResp}

DataAnswers(self, t, loc, rr, lr) ==
    IF "home" \in Kinds(get_location_data(self, t, loc, rr, lr, NoResp).reqs)
    THEN DataResponses(req_loc_id(self, loc)) ELSE {NoResp}

LocationsAnswers(self, t) ==
    IF "locations" \in Kinds(get_users_locations(self, t, NoResp).reqs)
    THEN LocationsResponses ELSE {NoResp}

---------------------------------------------------------------------------
(* get_data() as a coroutine.  A coroutine runs without interruption from
   one suspension point to the next; it is suspended while it awaits the
   answer to a request (session.get / session.post in _request) and while it
   awaits the body of an answer (response.text()).  Awaiting get_token() or
   _refresh_access_token() is a call and suspends nothing by itself. *)

\* the coroutines that may overlap
Tasks == {1, 2}

\* the cached document and last_refreshed, as stored together
Pair(data, refreshed) == [data |-> data, refreshed |-> refreshed]

InitPair == Pair(NoBlob, 0 - (REFRESH_LIMIT + 60))

\* a get_data(loc) coroutine: where it stands, the answer whose body it
\* awaits, the exception it ended with, and the pair its latest successful
\* fetch stored
Task(pc, loc, resp, exc, stored) ==
    [pc |-> pc, loc |-> loc, resp |-> resp, exc |-> exc, stored |-> stored]

IdleTask(stored) == Task("idle", None, NoResp, None, stored)

\* the coroutine ends: it raises exc, or returns (exc = None)
ended(tk, exc) == [tk EXCEPT !.pc = "done", !.resp = NoResp, !.exc = exc]

\* _get_location_data lines 176-184, get_token() having returned: the
\* throttle check, then the location-data request is sent
after_token(tk, self, t) ==
    IF still_valid(self.data_refreshed, t) THEN ended(tk, None)
    ELSE [tk EXCEPT !.pc = "home_request", !.resp = NoResp]

\* get_token lines 207-221, from the top
enter_get_token(tk, self, t) ==
    IF access_token_valid(self.tok, t) THEN after_token(tk, self, t)
    ELSE IF self.tok.refresh_token # None
            /\ ~token_expired(self.tok.refresh_token_expire, t)
    THEN [tk EXCEPT !.pc = "refresh_request"]
    ELSE [tk EXCEPT !.pc = "login_request"]

\* get_token lines 216-221, _refresh_access_token() having returned
leave_refresh(tk, self, t) ==
    IF access_token_valid(self.tok, t) THEN after_token(tk, self, t)
    ELSE [tk EXCEPT !.pc = "login_request", !.resp = NoResp]

\* a mutant of store_location_data: the coroutine is suspended between the
\* two assignments
store_location_data_blob_only(self, body, t) ==
    [self EXCEPT !.location_data = body]

\* _get_location_data lines 197-198, the body having arrived at time t: the
\* two assignments, with no await between them
store_location_data(self, body, t) ==
    [self EXCEPT !.location_data = body, !.data_refreshed = t]

\* the answers of the endpoints, one for each path through the code; their
\* latency is the time that passes while the coroutine is suspended
AsyncTokenAnswers ==
    {Answer(200, b, NoBlob, 0) :
        b \in {TokenBody(TokenKeys, TRUE, 1, 25, 40), TokenBody(TokenKeys, TRUE, 2, 15, 25)}
              \cup BadTokenBodies}
    \cup {Answer(s, NoTokenBody, NoBlob, 0) : s \in {202, 401, 500}}
    \cup {Failure("ClientError", 0)}

AsyncDataAnswers(loc) ==
    {Answer(200, NoTokenBody, b, 0) : b \in BlobsOf(loc) \cup {BadBlob}}
    \cup {Answer(s, NoTokenBody, NoBlob, 0) : s \in {202, 401, 500}}
    \cup {Failure("ClientError", 0)}

---------------------------------------------------------------------------
(* Initial state: Homely.__init__ at time 0, with or without a location_id *)

Init ==
    /\ now = 0
    /\ tok = [access_token |-> None, access_token_expire |-> 0 - INIT_EXPIRED_BY,
              refresh_token |-> None, refresh_token_expire |-> 0 - INIT_EXPIRED_BY]
    /\ location_id \in DefaultLocs
    /\ location_data = NoBlob
    /\ data_refreshed = 0 - (REFRESH_LIMIT + 60)
    /\ locations = <<>>
    /\ last = NoCall
    /\ prev = Brief(NoCall)
    /\ tasks = [i \in Tasks |-> IdleTask(InitPair)]

---------------------------------------------------------------------------
(* Actions *)

\* the object, the clock and the history after an operation with outcome o
Finish(op, loc, o, exc, data, state, devices) ==
    /\ o.t <= MaxTime
    /\ now' = o.t
    /\ tok' = o.self.tok
    /\ location_id' = o.self.location_id
    /\ location_data' = o.self.location_data
    /\ data_refreshed' = o.self.data_refreshed
    /\ locations' = o.self.locations
    /\ last' = Call(op, loc, now, Self, o, exc, data, state, devices)
    /\ prev' = prev
    /\ tasks' = tasks

\* time passes between operations
Tick ==
    \E d \in TickSteps :
    /\ last = NoCall
    /\ now + d <= MaxTime
    /\ now' = now + d
    /\ UNCHANGED <<tok, location_id, location_data, data_refreshed, locations, last, prev,
                   tasks>>

SetLocationId ==
    \E l \in DefaultLocs :
        /\ last = NoCall
        /\ location_id' = l
        /\ UNCHANGED <<now, tok, location_data, data_refreshed, locations, last, prev,
                       tasks>>

GetToken ==
    /\ last = NoCall
    /\ \E self \in {Self} :
       \E rr \in RefreshAnswers(self, now) :
       \E lr \in LoginAnswers(self, now, rr) :
       \E o \in {get_token(self, now, rr, lr)} :
          Finish("get_token", None, o, o.exc, NoBlob, None, <<>>)

GetUsersLocations ==
    /\ last = NoCall
    /\ \E self \in {Self} :
       \E ur \in LocationsAnswers(self, now) :
       \E o \in {get_users_locations(self, now, ur)} :
          Finish("get_users_locations", None, o, o.exc, NoBlob, None, <<>>)

GetSystemState ==
    /\ last = NoCall
    /\ \E self \in {Self} :
       \E loc \in LocArgs :
       \E rr \in RefreshAnswers(self, now) :
       \E lr \in LoginAnswers(self, now, rr) :
       \E dr \in DataAnswers(self, now, loc, rr, lr) :
       \E o \in {get_location_data(self, now, loc, rr, lr, dr)} :
       \E v \in {system_state_of(o.self.location_data)} :
          IF o.exc # None
          THEN Finish("get_system_state", loc, o, o.exc, NoBlob, None, <<>>)
          ELSE Finish("get_system_state", loc, o, v.exc, NoBlob, v.value, <<>>)

GetDevices ==
    /\ last = NoCall
    /\ \E self \in {Self} :
       \E loc \in LocArgs :
       \E rr \in RefreshAnswers(self, now) :
       \E lr \in LoginAnswers(self, now, rr) :
       \E dr \in DataAnswers(self, now, loc, rr, lr) :
       \E o \in {get_location_data(self, now, loc, rr, lr, dr)} :
       \E v \in {devices_of(o.self.location_data)} :
          IF o.exc # None
          THEN Finish("get_devices", loc, o, o.exc, NoBlob, None, <<>>)
          ELSE Finish("get_devices", loc, o, v.exc, NoBlob, None, v.value)

GetData ==
    /\ last = NoCall
    /\ \E self \in {Self} :
       \E loc \in LocArgs :
       \E rr \in RefreshAnswers(self, now) :
       \E lr \in LoginAnswers(self, now, rr) :
       \E dr \in DataAnswers(self, now, loc, rr, lr) :
       \E o \in {get_location_data(self, now, loc, rr, lr, dr)} :
          IF o.exc # None
          THEN Finish("get_data", loc, o, o.exc, NoBlob, None, <<>>)
          ELSE Finish("get_data", loc, o, None, o.self.location_data, None, <<>>)

\* the caller takes the result of its call (the value or the exception);
\* callers serialize their calls, so the next call starts after this
Return ==
    /\ last # NoCall
    /\ last' = NoCall
    /\ UNCHANGED <<now, tok, location_id, location_data, data_refreshed, locations, prev,
                   tasks>>

\* Return, with the call remembered as the one before the next
ReturnKeep ==
    /\ last # NoCall
    /\ last' = NoCall
    /\ prev' = Brief(last)
    /\ UNCHANGED <<now, tok, location_id, location_data, data_refreshed, locations, tasks>>

Next ==
    \/ Tick
    \/ Return
    \/ SetLocationId
    \/ GetToken
    \/ GetUsersLocations
    \/ GetSystemState
    \/ GetDevices
    \/ GetData

Spec == Init /\ [][Next]_vars

\* the same operations, with the previous call remembered
NextPairs ==
    \/ Tick
    \/ ReturnKeep
    \/ SetLocationId
    \/ GetToken
    \/ GetUsersLocations
    \/ GetSystemState
    \/ GetDevices
    \/ GetData

SpecPairs == Init /\ [][NextPairs]_vars

\* what is kept of the location-data requests issued so far, after call c and
\* with p kept before it: the time the latest request was issued (t0) and the
\* time the latest successful fetch completed (fetchDone, -1: none)
RateBrief(c, p) ==
    IF "home" \notin Kinds(c.reqs) THEN p
    ELSE LET i == CHOOSE j \in DOMAIN c.reqs : c.reqs[j].kind = "home"
         IN  [op |-> "home", t0 |-> c.reqs[i].at, data |-> NoBlob, homeRequests |-> 1,
              fetchDone |-> IF i \in Fetches(c.reqs) THEN c.reqs[i].done ELSE p.fetchDone]

\* Return, with the location-data requests issued so far remembered
ReturnRate ==
    /\ last # NoCall
    /\ last' = NoCall
    /\ prev' = RateBrief(last, prev)
    /\ UNCHANGED <<now, tok, location_id, location_data, data_refreshed, locations, tasks>>

\* the same operations, with the latest location-data request remembered
NextRate ==
    \/ Tick
    \/ ReturnRate
    \/ SetLocationId
    \/ GetToken
    \/ GetUsersLocations
    \/ GetSystemState
    \/ GetDevices
    \/ GetData

SpecRate == Init /\ [][NextRate]_vars

---------------------------------------------------------------------------
(* The steps of overlapping get_data() coroutines *)

\* time passes while coroutines are suspended, or between calls
AsyncTick ==
    \E d \in TickSteps :
        /\ now + d <= MaxAsyncTime
        /\ now' = now + d
        /\ UNCHANGED <<tok, location_id, location_data, data_refreshed, locations, last,
                       prev, tasks>>

\* get_data(loc) is called: the location check, get_token() up to its first
\* request (none if the access token is valid), the throttle check
StartGetData ==
    \E i \in Tasks : \E loc \in LocArgs :
        /\ tasks[i].pc = "idle"
        /\ tasks' = [tasks EXCEPT ![i] =
              IF location_id = None /\ loc = None
              THEN ended([@ EXCEPT !.loc = loc], "LoginError")
              ELSE enter_get_token([@ EXCEPT !.loc = loc, !.exc = None], Self, now)]
        /\ UNCHANGED <<now, tok, location_id, location_data, data_refreshed, locations,
                       last, prev>>

\* the refresh request is answered: _refresh_access_token lines 119-128 and
\* 143-144
RefreshResponse ==
    \E i \in Tasks : \E rr \in AsyncTokenAnswers :
        /\ tasks[i].pc = "refresh_request"
        /\ tasks' = [tasks EXCEPT ![i] =
              IF request("POST", rr) # None THEN ended(@, request("POST", rr))
              ELSE IF rr.status >= 500 THEN ended(@, "ResponseError")
              ELSE IF rr.status = 400 THEN ended(@, "LoginError")
              ELSE IF rr.status >= 401 THEN ended(@, "LoginError")
              ELSE IF rr.status \in {200, 201}
              THEN [@ EXCEPT !.pc = "refresh_text", !.resp = rr]
              ELSE leave_refresh(@, Self, now)]
        /\ UNCHANGED <<now, tok, location_id, location_data, data_refreshed, locations,
                       last, prev>>

\* the body of the refresh answer has arrived: lines 130-142, then get_token
\* goes on
RefreshText ==
    \E i \in Tasks :
        /\ tasks[i].pc = "refresh_text"
        /\ \E ins \in {refresh_set_tokens(tok, tasks[i].resp.tbody, now)} :
              /\ tok' = ins.tok
              /\ tasks' = [tasks EXCEPT ![i] =
                    IF ins.exc # None THEN ended(@, ins.exc)
                    ELSE leave_refresh(@, [Self EXCEPT !.tok = ins.tok], now)]
        /\ UNCHANGED <<now, location_id, location_data, data_refreshed, locations,
                       last, prev>>

\* the login request is answered: get_token lines 225-233
LoginResponse ==
    \E i \in Tasks : \E lr \in AsyncTokenAnswers :
        /\ tasks[i].pc = "login_request"
        /\ tasks' = [tasks EXCEPT ![i] =
              IF request("POST", lr) # None THEN ended(@, request("POST", lr))
              ELSE IF lr.status >= 500 THEN ended(@, "ResponseError")
              ELSE IF lr.status >= 400 THEN ended(@, "LoginError")
              ELSE IF lr.status \in {200, 201}
              THEN [@ EXCEPT !.pc = "login_text", !.resp = lr]
              ELSE ended(@, login_set_tokens(tok, lr.status, lr.tbody, now).exc)]
        /\ UNCHANGED <<now, tok, location_id, location_data, data_refreshed, locations,
                       last, prev>>

\* the body of the login answer has arrived: lines 234-244, then the
\* throttle check
LoginText ==
    \E i \in Tasks :
        /\ tasks[i].pc = "login_text"
        /\ \E ins \in {login_set_tokens(tok, tasks[i].resp.status,
                                         tasks[i].resp.tbody, now)} :
              /\ tok' = ins.tok
              /\ tasks' = [tasks EXCEPT ![i] =
                    IF ins.exc # None THEN ended(@, ins.exc)
                    ELSE after_token(@, [Self EXCEPT !.tok = ins.tok], now)]
        /\ UNCHANGED <<now, location_id, location_data, data_refreshed, locations,
                       last, prev>>

\* the location-data request is answered: _get_location_data lines 186-196
\* and 200-201
HomeResponse ==
    \E i \in Tasks : \E dr \in AsyncDataAnswers(req_loc_id(Self, tasks[i].loc)) :
        /\ tasks[i].pc = "home_request"
        /\ tasks' = [tasks EXCEPT ![i] =
              IF request("GET", dr) # None THEN ended(@, request("GET", dr))
              ELSE IF dr.status >= 500 THEN ended(@, "ResponseError")
              ELSE IF dr.status = 400 THEN ended(@, "LoginError")
              ELSE IF dr.status >= 401 THEN ended(@, "LoginError")
              ELSE IF dr.status \in {200, 201}
              THEN [@ EXCEPT !.pc = "home_text", !.resp = dr]
              ELSE ended(@, None)]
        /\ UNCHANGED <<now, tok, location_id, location_data, data_refreshed, locations,
                       last, prev>>

\* the body of the location-data answer has arrived: lines 197-199
HomeText ==
    \E i \in Tasks :
        /\ tasks[i].pc = "home_text"
        /\ IF ~tasks[i].resp.dbody.parses
           THEN /\ tasks' = [tasks EXCEPT ![i] = ended(@, "JSONDecodeError")]
                /\ UNCHANGED <<location_data, data_refreshed>>
           ELSE \E s \in {store_location_data(Self, tasks[i].resp.dbody, now)} :
                   /\ location_data' = s.location_data
                   /\ data_refreshed' = s.data_refreshed
                   /\ tasks' = [tasks EXCEPT ![i] =
                         ended([@ EXCEPT !.stored = Pair(tasks[i].resp.dbody, now)],
                               None)]
        /\ UNCHANGED <<now, tok, location_id, locations, last, prev>>

\* the caller of the coroutine takes its result
TaskReturn ==
    \E i \in Tasks :
        /\ tasks[i].pc = "done"
        /\ tasks' = [tasks EXCEPT ![i] = IdleTask(@.stored)]
        /\ UNCHANGED <<now, tok, location_id, location_data, data_refreshed, locations,
                       last, prev>>

NextAsync ==
    \/ AsyncTick
    \/ StartGetData
    \/ RefreshResponse
    \/ RefreshText
    \/ LoginResponse
    \/ LoginText
    \/ HomeResponse
    \/ HomeText
    \/ TaskReturn

SpecAsync == Init /\ [][NextAsync]_vars

\* the periodic update of the coordinator: get_data() without a location_id,
\* its HomelyErrors converted into UpdateFailed
AsyncUpdateData ==
    /\ last = NoCall
    /\ \E self \in {Self} :
       \E rr \in RefreshAnswers(self, now) :
       \E lr \in LoginAnswers(self, now, rr) :
       \E dr \in DataAnswers(self, now, None, rr, lr) :
       \E o \in {get_location_data(self, now, None, rr, lr, dr)} :
          IF o.exc # None
          THEN Finish("_async_update_data", None, o, async_update_data(o.exc),
                      NoBlob, None, <<>>)
          ELSE Finish("_async_update_data", None, o, None, o.self.location_data,
                      None, <<>>)

\* the client as the integration drives it: get_token() when the entry is set
\* up (__init__.py line 37), then the updates of the coordinator
NextCoordinator ==
    \/ Tick
    \/ Return
    \/ GetToken
    \/ AsyncUpdateData

SpecCoordinator == Init /\ [][NextCoordinator]_vars

---------------------------------------------------------------------------
(* Vocabulary of the properties *)

LocationOps == {"get_system_state", "get_devices", "get_data"}

\* the operations that run get_token
TokenOps == {"get_token"} \cup LocationOps

\* the requests of a kind that the last operation issued
Entries(kind) == {i \in DOMAIN last.reqs : last.reqs[i].kind = kind}

Answered(resp, statuses) == resp.net = "ok" /\ resp.status \in statuses

\* the access token of k is present and t is not past its expiry
Unexpired(k, t) == k.access_token # None /\ ~(t > k.access_token_expire)

\* the refresh token of k is present and t is not past its expiry
Refreshable(k, t) == k.refresh_token # None /\ ~(t > k.refresh_token_expire)

CacheUnchanged ==
    /\ location_data = last.pre.location_data
    /\ data_refreshed = last.pre.data_refreshed

\* the instants at which token validity is judged
Instants == (0 - 10) .. (MaxTime + 40)

---------------------------------------------------------------------------
(* C1 *)

\* C1: when get_token() is called with an invalid access token and a usable
\* refresh token and the refresh endpoint rejects the refresh token (400 or
\* 401..499), a full login is attempted and the caller sees only the outcome
\* of that login.
C1_RefreshRejectionFallsBackToLogin ==
    (/\ last.op = "get_token"
     /\ ~Unexpired(last.pre.tok, last.t0)
     /\ Refreshable(last.pre.tok, last.t0)
     /\ \E i \in Entries("refresh") : Answered(last.reqs[i].resp, {400} \cup (401..499)))
    => /\ Entries("login") # {}
       /\ \A i \in Entries("login") :
             last.exc = login([last.pre EXCEPT !.tok = last.reqs[i].before],
                              last.reqs[i].at, last.reqs[i].resp).exc

---------------------------------------------------------------------------
(* C2 *)

\* C2: a get_token() that finds the access token present and not past its
\* expiry issues no refresh and no login request and leaves TokenState as it
\* was (also when it runs as the first step of a location-scoped operation).
C2_ValidTokenNoNetwork ==
    (/\ last.op \in TokenOps
     /\ Unexpired(last.pre.tok, last.t0))
    => /\ Entries("refresh") = {}
       /\ Entries("login") = {}
       /\ tok = last.pre.tok
       /\ last.op = "get_token" => (last.exc = None /\ last.ret /\ now = last.t0)

\* a get_token() call at the very instant of access_token_expiry
C2_Witness ==
    /\ last.op = "get_token"
    /\ last.pre.tok.access_token # None
    /\ last.t0 = last.pre.tok.access_token_expire
    /\ last.reqs = <<>>

---------------------------------------------------------------------------
(* C3 *)

\* the outcome of the get_token() step of the last operation, from the object
\* it was called on and the answers its requests got
RespOf(kind) ==
    IF Entries(kind) = {} THEN NoResp
    ELSE last.reqs[CHOOSE i \in Entries(kind) : TRUE].resp

TokenStep == get_token(last.pre, last.t0, RespOf("refresh"), RespOf("login"))

\* the last two operations are get_data() calls that returned
TwoGetData == prev.op = "get_data" /\ last.op = "get_data" /\ last.exc = None

\* C3 as claimed: two get_data() calls made less than REFRESH_LIMIT apart
\* return the same document and issue exactly one location-data request
\* between them, the fetch of the first call (stated for the pairs whose
\* first call did fetch the document).
C3_Original ==
    (/\ TwoGetData
     /\ prev.fetchDone >= 0
     /\ last.t0 - prev.t0 < REFRESH_LIMIT)
    => /\ last.data = prev.data
       /\ prev.homeRequests + Cardinality(Entries("home")) = 1

\* C3 as amended: when the first call fetched the document (200/201) and the
\* second has a location id, its get_token() step does not raise, and it
\* reaches the throttle check less than REFRESH_LIMIT after that fetch
\* completed, the second call returns the same document and issues no
\* location-data request, the first having issued exactly one.
C3_ThrottledCallServesCache ==
    (/\ prev.op = "get_data"
     /\ prev.fetchDone >= 0
     /\ last.op = "get_data"
     /\ ~(last.loc = None /\ last.pre.location_id = None)
     /\ TokenStep.exc = None
     /\ TokenStep.t < prev.fetchDone + REFRESH_LIMIT)
    => /\ last.exc = None
       /\ last.data = prev.data
       /\ Entries("home") = {}
       /\ prev.homeRequests = 1
       /\ CacheUnchanged

\* a second get_data(), later than the first and after a login that took
\* time, served from the document the first call fetched
C3_Witness ==
    /\ prev.op = "get_data"
    /\ prev.fetchDone >= 0
    /\ last.op = "get_data"
    /\ last.exc = None
    /\ last.t0 > prev.t0
    /\ Entries("login") # {}
    /\ now > last.t0
    /\ now < prev.fetchDone + REFRESH_LIMIT
    /\ Entries("home") = {}
    /\ ~last.data.isNone
    /\ last.data = prev.data

---------------------------------------------------------------------------
(* C4 *)

\* the last operation is a get_data() called when the throttle interval
\* since the last successful refresh has elapsed
DueGetData ==
    /\ last.op = "get_data"
    /\ ~(last.t0 < last.pre.data_refreshed + REFRESH_LIMIT)

\* C4 as claimed: a get_data() call made after the throttle interval has
\* elapsed (or with no prior fetch) issues exactly one location-data request,
\* and on a 200/201 answer the cache holds the answer's document and
\* last_refreshed is the current time.
C4_Original ==
    DueGetData
    => /\ Cardinality(Entries("home")) = 1
       /\ \A i \in Entries("home") :
             Answered(last.reqs[i].resp, {200, 201})
             => /\ location_data = last.reqs[i].resp.dbody
                /\ data_refreshed = now

\* C4 as amended: the same, for a call that has a location id (its own or
\* the default) and whose get_token() step does not raise, and for a 200/201
\* answer whose body parses.
C4_DueGetDataFetchesOnce ==
    (/\ DueGetData
     /\ ~(last.loc = None /\ last.pre.location_id = None)
     /\ TokenStep.exc = None)
    => /\ Cardinality(Entries("home")) = 1
       /\ \A i \in Entries("home") :
             /\ last.reqs[i].loc = req_loc_id(last.pre, last.loc)
             /\ (Answered(last.reqs[i].resp, {200, 201}) /\ last.reqs[i].resp.dbody.parses)
                => /\ location_data = last.reqs[i].resp.dbody
                   /\ data_refreshed = now
                   /\ now = last.reqs[i].done
                   /\ last.exc = None
                   /\ last.data = location_data

\* a get_data() exactly REFRESH_LIMIT after the previous successful refresh
\* that replaced the cached document by a different one
C4_Witness ==
    /\ last.op = "get_data"
    /\ last.t0 = last.pre.data_refreshed + REFRESH_LIMIT
    /\ ~last.pre.location_data.isNone
    /\ last.exc = None
    /\ Cardinality(Entries("home")) = 1
    /\ location_data # last.pre.location_data
    /\ data_refreshed = now
    /\ now > last.t0

---------------------------------------------------------------------------
(* C5 *)

\* entry e is a login or refresh request answered 200/201 with a complete body
Installed(e) ==
    /\ e.kind \in {"refresh", "login"}
    /\ Answered(e.resp, {200, 201})
    /\ e.resp.tbody.parses
    /\ e.resp.tbody.keys = TokenKeys

\* C5: after a successful login or refresh, access_token_expiry is the time
\* of the answer + expires_in - TOKEN_EXPIRE_MARGIN, refresh_token_expiry is
\* that time + refresh_expires_in - TOKEN_EXPIRE_MARGIN, and the access token
\* is valid at every instant before its expiry and invalid at every instant
\* after it.
C5_ExpiryIsLifetimeMinusMargin ==
    \A i \in DOMAIN last.reqs :
        Installed(last.reqs[i])
        => LET e == last.reqs[i]
               expiry == e.done + e.resp.tbody.expires_in - TOKEN_EXPIRE_MARGIN
           IN  /\ e.after.access_token = e.resp.tbody.access_token
               /\ e.after.refresh_token = e.resp.tbody.refresh_token
               /\ e.after.access_token_expire = expiry
               /\ e.after.refresh_token_expire =
                     e.done + e.resp.tbody.refresh_expires_in - TOKEN_EXPIRE_MARGIN
               /\ \A t \in Instants :
                     /\ t < expiry => access_token_valid(e.after, t)
                     /\ t > expiry => ~access_token_valid(e.after, t)

\* a refresh that took time and installed a token pair with a future expiry
C5_Witness ==
    \E i \in DOMAIN last.reqs :
        /\ Installed(last.reqs[i])
        /\ last.reqs[i].kind = "refresh"
        /\ last.reqs[i].done > last.reqs[i].at
        /\ last.reqs[i].after.access_token_expire > last.reqs[i].done
        /\ tok = last.reqs[i].after

---------------------------------------------------------------------------
(* C6 *)

\* C6: a 400 answer to the location-data request raises an error of class
\* InvalidArgument and leaves the cached document and last_refreshed as they
\* were.
C6_Status400IsInvalidArgument ==
    \A i \in Entries("home") :
        Answered(last.reqs[i].resp, {400})
        => /\ IsInstance(last.exc, "InvalidArgument")
           /\ CacheUnchanged

---------------------------------------------------------------------------
(* C7 *)

\* C7: get_users_locations() called with the access token absent or past its
\* expiry raises LoginError without issuing a request, and no call of it
\* changes the cached document, last_refreshed or TokenState.
C7_ListLocationsNeedsToken ==
    last.op = "get_users_locations"
    => /\ ~Unexpired(last.pre.tok, last.t0)
          => (last.exc = "LoginError" /\ last.reqs = <<>> /\ now = last.t0)
       /\ CacheUnchanged
       /\ tok = last.pre.tok

\* get_users_locations() called with an access token that has expired
C7_Witness ==
    /\ last.op = "get_users_locations"
    /\ last.pre.tok.access_token # None
    /\ last.t0 > last.pre.tok.access_token_expire
    /\ last.exc = "LoginError"

---------------------------------------------------------------------------
(* C8 *)

\* C8: a location-scoped operation called without a location_id on a client
\* without a default location raises an InvalidArgument error before any
\* request and changes neither TokenState nor the cache; with both present,
\* the request goes to the location_id passed.
C8_MissingLocationIsInvalidArgument ==
    last.op \in LocationOps
    => /\ (last.loc = None /\ last.pre.location_id = None)
          => /\ IsInstance(last.exc, "InvalidArgument")
             /\ last.reqs = <<>>
             /\ tok = last.pre.tok
             /\ CacheUnchanged
       /\ (last.loc # None /\ last.pre.location_id # None)
          => \A i \in Entries("home") : last.reqs[i].loc = last.loc

---------------------------------------------------------------------------
(* C9 *)

\* the object is as it was when request e was issued
UnchangedSince(e) ==
    /\ tok = e.before
    /\ CacheUnchanged
    /\ location_id = last.pre.location_id
    /\ locations = last.pre.locations

\* C9: a request that fails at the network level (connection error or
\* timeout), GET or POST, reaches the caller as RequestFailed and changes
\* nothing of the client.
C9_NetworkFailureIsRequestFailed ==
    \A i \in DOMAIN last.reqs :
        last.reqs[i].resp.net \in {"ClientError", "TimeoutError"}
        => /\ last.exc = "RequestFailed"
           /\ UnchangedSince(last.reqs[i])

---------------------------------------------------------------------------
(* C10 *)

\* the token step ended with a login answered by a status in statuses
LoginAnswered(statuses) ==
    /\ last.op \in TokenOps
    /\ Entries("login") # {}
    /\ \A i \in Entries("login") : Answered(last.reqs[i].resp, statuses)

\* C10 as claimed: a login answered 4xx raises LoginError, one answered 5xx
\* raises ResponseError, no request follows, and TokenState is what it was
\* before the call.
C10_Original ==
    /\ LoginAnswered(400..499) => last.exc = "LoginError"
    /\ LoginAnswered(500..599) => last.exc = "ResponseError"
    /\ LoginAnswered(400..599)
       => /\ last.reqs[Len(last.reqs)].kind = "login"
          /\ Cardinality(Entries("login")) = 1
          /\ tok = last.pre.tok

\* C10 as amended: the same, with TokenState what it was when the login
\* request was issued (a successful refresh earlier in the same call, whose
\* token was already past its expiry, has replaced the state of before the
\* call).
C10_FailedLoginKeepsTokenState ==
    /\ LoginAnswered(400..499) => last.exc = "LoginError"
    /\ LoginAnswered(500..599) => last.exc = "ResponseError"
    /\ LoginAnswered(400..599)
       => /\ last.reqs[Len(last.reqs)].kind = "login"
          /\ Cardinality(Entries("login")) = 1
          /\ tok = last.reqs[Len(last.reqs)].before
          /\ Entries("refresh") = {} => tok = last.pre.tok

\* a login answered 500 while a token pair was stored
C10_Witness ==
    /\ LoginAnswered({500})
    /\ last.pre.tok.access_token # None
    /\ last.pre.tok.refresh_token # None
    /\ last.exc = "ResponseError"
    /\ tok = last.pre.tok

---------------------------------------------------------------------------
(* C11 *)

\* entry e is a login or refresh request whose answer is malformed: a 200/201
\* whose body is no JSON or lacks a field, or a status outside the branches
\* of the code (below 400 and neither 200 nor 201)
Malformed(e) ==
    /\ e.kind \in {"refresh", "login"}
    /\ e.resp.net = "ok"
    /\ \/ /\ e.resp.status \in {200, 201}
          /\ ~(e.resp.tbody.parses /\ e.resp.tbody.keys = TokenKeys)
       \/ /\ e.resp.status \notin {200, 201}
          /\ e.resp.status < 400

\* C11: an operation whose login or refresh request got a malformed answer
\* raises ResponseError (the typed transient server error), not an untyped
\* exception, and does not return normally.
C11_MalformedTokenResponseIsResponseError ==
    \A i \in DOMAIN last.reqs :
        Malformed(last.reqs[i]) => IsInstance(last.exc, "ResponseError")

---------------------------------------------------------------------------
(* C12 *)

\* C12: whenever get_system_state() returns, the cache holds a document and
\* the result is its alarmState, or "UNKNOWN" if the document has none;
\* whenever get_devices() returns, the result is the document's devices, or
\* the empty sequence if it has none; on a client without a document,
\* get_system_state("loc1") answered with alarmState ARMED_AWAY returns
\* "ARMED_AWAY".
C12_FacadeReturnsSnapshotFields ==
    /\ (last.op = "get_system_state" /\ last.exc = None)
       => /\ ~location_data.isNone
          /\ location_data.alarmState # "ABSENT" => last.state = location_data.alarmState
          /\ location_data.alarmState = "ABSENT" => last.state = "UNKNOWN"
    /\ (last.op = "get_devices" /\ last.exc = None)
       => /\ ~location_data.isNone
          /\ location_data.hasDevices => last.devices = location_data.devices
          /\ ~location_data.hasDevices => last.devices = <<>>
    /\ (/\ last.op = "get_system_state"
        /\ last.loc = "loc1"
        /\ last.pre.location_data.isNone
        /\ \E i \in Fetches(last.reqs) :
              last.reqs[i].resp.dbody.alarmState = "ARMED_AWAY")
       => (last.exc = None /\ last.state = "ARMED_AWAY")

\* get_system_state("loc1") on a client that has logged in and holds no
\* document yet, the server answering a document with alarmState ARMED_AWAY
C12_Witness ==
    /\ last.op = "get_system_state"
    /\ last.loc = "loc1"
    /\ last.pre.location_data.isNone
    /\ Unexpired(last.pre.tok, last.t0)
    /\ \E i \in Fetches(last.reqs) : last.reqs[i].resp.dbody.alarmState = "ARMED_AWAY"
    /\ last.state = "ARMED_AWAY"

---------------------------------------------------------------------------
(* C13 *)

\* C13: every step that changes the cached document or last_refreshed is a
\* location-scoped operation whose location-data request was answered
\* 200/201; it installs the document of that answer and the time the answer
\* was processed.  (So a throttled call, a failed fetch and a failed token
\* step leave both as they were.)
C13_CacheChangesOnlyBySuccessfulFetch ==
    [][(location_data' # location_data \/ data_refreshed' # data_refreshed)
       => /\ last'.op \in LocationOps
          /\ \E i \in Fetches(last'.reqs) :
                /\ location_data' = last'.reqs[i].resp.dbody
                /\ data_refreshed' = last'.reqs[i].done]_vars

\* a get_devices() whose fetch replaced a cached document by another one,
\* after one whose fetch failed would have left it
C13_Witness ==
    /\ last.op = "get_devices"
    /\ ~last.pre.location_data.isNone
    /\ Fetches(last.reqs) # {}
    /\ location_data # last.pre.location_data
    /\ data_refreshed > last.pre.data_refreshed

---------------------------------------------------------------------------
(* C14 *)

\* C14: whenever get_token() returns normally the access token is present
\* and unexpired, a get_token() repeated at once issues no request and
\* changes nothing, and every location-data request is sent with an access
\* token that is present and unexpired when it is sent.
C14_GetTokenLeavesValidToken ==
    /\ (last.op = "get_token" /\ last.exc = None)
       => /\ Unexpired(tok, now)
          /\ get_token(Self, now, NoResp, NoResp).reqs = <<>>
          /\ get_token(Self, now, NoResp, NoResp).self = Self
    /\ \A i \in Entries("home") : Unexpired(last.reqs[i].before, last.reqs[i].at)

---------------------------------------------------------------------------
(* C15 *)

\* C15: every failure of the coordinator's update is an UpdateFailed (the
\* failure of get_data() was a HomelyError and was converted), and a failed
\* update leaves the cached document and last_refreshed as they were.
C15_UpdateFailuresAreUpdateFailed ==
    (last.op = "_async_update_data" /\ last.exc # None)
    => /\ last.exc = "UpdateFailed"
       /\ CacheUnchanged

---------------------------------------------------------------------------
(* C16 *)

---------------------------------------------------------------------------
(* C17 *)

\* TokenState k is, in all four fields, what the answer of entry e gives
WholeFrom(k, e) ==
    /\ Installed(e)
    /\ k.access_token = e.resp.tbody.access_token
    /\ k.access_token_expire = e.done + e.resp.tbody.expires_in - TOKEN_EXPIRE_MARGIN
    /\ k.refresh_token = e.resp.tbody.refresh_token
    /\ k.refresh_token_expire =
          e.done + e.resp.tbody.refresh_expires_in - TOKEN_EXPIRE_MARGIN

\* C17: after every operation TokenState is what it was before the operation
\* or is, in all four fields, derived from one successful login or refresh
\* answer of the operation; an answer that fails validation changes nothing.
C17_TokenStateNeverPartial ==
    /\ last.op \in TokenOps
       => (tok = last.pre.tok \/ \E i \in DOMAIN last.reqs : WholeFrom(tok, last.reqs[i]))
    /\ \A i \in DOMAIN last.reqs :
          (last.reqs[i].kind \in {"refresh", "login"} /\ ~Installed(last.reqs[i]))
          => last.reqs[i].after = last.reqs[i].before

---------------------------------------------------------------------------
(* C18 *)

\* C18: with get_data() coroutines overlapping and switching at every
\* suspension point, the cached document and last_refreshed are, whenever
\* another coroutine can run, the pair of construction or the document and
\* the time that one successful fetch stored together: never the document
\* of one fetch with the timestamp of before it, or the reverse.
C18_DocumentAndTimestampStoredTogether ==
    \E i \in Tasks : tasks[i].stored = Pair(location_data, data_refreshed)

\* a fetch has stored its document and time while the other coroutine, which
\* stored the pair of before, is suspended in its own fetch
C18_Witness ==
    \E i \in Tasks : \E j \in Tasks :
        /\ i # j
        /\ tasks[i].pc = "done"
        /\ tasks[i].stored = Pair(location_data, data_refreshed)
        /\ tasks[j].pc = "home_text"
        /\ tasks[j].stored # InitPair
        /\ tasks[j].stored.data # location_data
        /\ tasks[j].stored.refreshed < data_refreshed

---------------------------------------------------------------------------
(* C19 *)

\* the last operation ran get_token(): it is get_token() itself or a
\* location-scoped operation that has a location id
RanGetToken ==
    \/ last.op = "get_token"
    \/ last.op \in LocationOps /\ ~(last.loc = None /\ last.pre.location_id = None)

\* C19: get_token() issues at most one refresh and at most one login request;
\* a refresh request is issued exactly when the access token is invalid and
\* the refresh token present and unexpired, and it is the first request; a
\* login request is issued only when the access token is invalid and either
\* the refresh token is not usable or the refresh request before it left an
\* access token that is not valid.
C19_ShortCircuitOrder ==
    RanGetToken
    => /\ Cardinality(Entries("refresh")) <= 1
       /\ Cardinality(Entries("login")) <= 1
       /\ Entries("refresh") # {}
          <=> (~Unexpired(last.pre.tok, last.t0) /\ Refreshable(last.pre.tok, last.t0))
       /\ \A i \in Entries("refresh") : i = 1 /\ last.reqs[i].at = last.t0
       /\ \A i \in Entries("login") :
             /\ ~Unexpired(last.pre.tok, last.t0)
             /\ \/ ~Refreshable(last.pre.tok, last.t0) /\ i = 1
                \/ /\ i = 2
                   /\ last.reqs[1].kind = "refresh"
                   /\ ~Unexpired(last.reqs[1].after, last.reqs[1].done)
                   /\ last.reqs[i].at = last.reqs[1].done

\* a get_token() whose refresh installed a token already past its expiry and
\* that went on to log in
C19_Witness ==
    /\ last.op = "get_token"
    /\ Len(last.reqs) = 2
    /\ last.reqs[1].kind = "refresh"
    /\ Installed(last.reqs[1])
    /\ last.reqs[2].kind = "login"
    /\ last.exc = None

---------------------------------------------------------------------------
(* C20 *)

\* C20: when the location-data request, sent with an access token that is
\* present and unexpired, is answered 401..499, the client does not keep the
\* rejected token as a valid one: afterwards the stored access token is
\* another one or does not count as valid, so that the next location-scoped
\* call authenticates before it fetches.
C20_RejectedTokenIsDropped ==
    \A i \in Entries("home") :
        (/\ Answered(last.reqs[i].resp, 401..499)
         /\ Unexpired(last.reqs[i].before, last.reqs[i].at))
        => \/ tok.access_token # last.reqs[i].before.access_token
           \/ ~Unexpired(tok, now)

---------------------------------------------------------------------------
(* C21 *)

\* the requests of the last operation are at most one of each kind in kinds,
\* and of no other kind
AtMostOneOfEach(kinds) ==
    /\ Kinds(last.reqs) \subseteq kinds
    /\ \A k \in kinds : Count(last.reqs, k) <= 1

\* the bounds on the requests of one operation
BoundedRequests ==
    /\ last.op = "get_token"
       => (Len(last.reqs) <= 2 /\ AtMostOneOfEach({"refresh", "login"}))
    /\ last.op \in LocationOps
       => (Len(last.reqs) <= 3 /\ AtMostOneOfEach({"refresh", "login", "home"}))
    /\ last.op = "get_users_locations"
       => (Len(last.reqs) <= 1 /\ AtMostOneOfEach({"locations"}))
    /\ last.op = None => last.reqs = <<>>

\* C21: get_token() issues at most 2 requests (one refresh, one login), a
\* location-scoped operation at most 3 (refresh, login, one location-data
\* request), get_users_locations() at most 1, none of them twice; and what
\* the answers of the server change (TokenState, the cached document,
\* last_refreshed, the list of locations) changes only in the step of an
\* operation a caller invoked, which issued a request.
C21_BoundedRequestsNoBackground ==
    [][/\ BoundedRequests'
       /\ (\/ tok' # tok
           \/ location_data' # location_data
           \/ data_refreshed' # data_refreshed
           \/ locations' # locations)
          => /\ last = NoCall
             /\ last'.op \in TokenOps \cup {"get_users_locations"}
             /\ last'.reqs # <<>>]_vars

\* a get_data() that issued three requests: a refresh that did not leave a
\* valid access token, a login, and the location-data request
C21_Witness ==
    /\ last.op = "get_data"
    /\ Len(last.reqs) = 3
    /\ last.reqs[1].kind = "refresh"
    /\ last.reqs[2].kind = "login"
    /\ last.reqs[3].kind = "home"
    /\ last.exc = None

---------------------------------------------------------------------------
(* C22 *)

\* C22: the document get_data() returns is the one of the location it was
\* asked for (the location_id passed, or else the default one): it was
\* fetched from /home/ of that location, also when another location was
\* fetched less than REFRESH_LIMIT earlier.
C22_DataBelongsToRequestedLocation ==
    (last.op = "get_data" /\ last.exc = None /\ ~last.data.isNone)
    => last.data.locationId = req_loc_id(last.pre, last.loc)

---------------------------------------------------------------------------
(* C23 *)

\* C23: whenever get_data() returns without raising, the document returned
\* is present and is the one a successful fetch stored no more than
\* REFRESH_LIMIT before the return, whatever the status of the answer to the
\* location-data request.
C23_ReturnedDataIsPresentAndFresh ==
    (last.op = "get_data" /\ last.exc = None)
    => /\ ~last.data.isNone
       /\ last.data = location_data
       /\ now - data_refreshed <= REFRESH_LIMIT

====
